---- MODULE Spec2Model ----
(***************************************************************************)
(* MRIConstants.h: four object-like macros, each inside an #ifndef guard.  *)
(* The model is the C preprocessor's macro table while a translation unit  *)
(* is read (consumer #define / #undef directives and inclusions of the     *)
(* header), together with the value each macro resolves to when it is used *)
(* in an expression: textual macro expansion with rescanning, followed by  *)
(* the evaluation of the resulting constant expression in IEEE-754 binary64*)
(* arithmetic (round to nearest, ties to even).                            *)
(***************************************************************************)
EXTENDS Integers, Sequences, FiniteSets, TLC

(***************************************************************************)
(* Natural numbers of arbitrary size: little-endian sequences of limbs in  *)
(* base 2^14 without leading zero limbs (zero is the empty sequence).  A   *)
(* binary64 significand has 53 bits and a product of two has 106, which    *)
(* the model checker's machine integers cannot hold.  Carries are found by *)
(* look-ahead, so that no operation but the long division recurses.        *)
(***************************************************************************)
LimbBase == 2^14

\* e, with v evaluated first: operands are computed before the operation
\* that uses them, which bounds the depth of an evaluation.
Force(v, e) == IF v = v THEN e ELSE e

Max(S) == CHOOSE x \in S : \A y \in S : y <= x

BLimb(a, i) == IF i >= 1 /\ i <= Len(a) THEN a[i] ELSE 0

BNorm(a) ==
    Force(a,
      LET nz == {i \in 1..Len(a) : a[i] # 0}
      IN  IF nz = {} THEN <<>> ELSE SubSeq(a, 1, Max(nz)))

\* s holds limb sums below 2 * LimbBase: the number they stand for.
BCarry(s) ==
    Force(s,
      LET cin(i) == \E j \in 1..(i - 1) :
                       /\ s[j] >= LimbBase
                       /\ \A k \in (j + 1)..(i - 1) : s[k] = LimbBase - 1
      IN  BNorm([i \in 1..(Len(s) + 1) |->
                   (BLimb(s, i) + (IF cin(i) THEN 1 ELSE 0)) % LimbBase]))

BAdd(a, b) ==
    Force(<<a, b>>,
      LET n == IF Len(a) > Len(b) THEN Len(a) ELSE Len(b)
      IN  BCarry([i \in 1..n |-> BLimb(a, i) + BLimb(b, i)]))

\* a - b for a >= b
BSub(a, b) ==
    Force(<<a, b>>,
      LET d == [i \in 1..Len(a) |-> a[i] - BLimb(b, i)]
          bin(i) == \E j \in 1..(i - 1) :
                       /\ d[j] < 0
                       /\ \A k \in (j + 1)..(i - 1) : d[k] = 0
      IN  Force(d, BNorm([i \in 1..Len(a) |->
                   (d[i] + LimbBase - (IF bin(i) THEN 1 ELSE 0)) % LimbBase])))

\* -1, 0, 1 as a < b, a = b, a > b
BCmp(a, b) ==
    Force(<<a, b>>,
      IF Len(a) < Len(b) THEN -1
      ELSE IF Len(a) > Len(b) THEN 1
      ELSE LET df == {i \in 1..Len(a) : a[i] # b[i]}
           IN  IF df = {} THEN 0
               ELSE IF a[Max(df)] < b[Max(df)] THEN -1 ELSE 1)

\* a * k for 0 <= k < LimbBase
BMulSmall(a, k) ==
    Force(<<a, k>>,
      BCarry([i \in 1..(Len(a) + 1) |->
                ((BLimb(a, i) * k) % LimbBase) + ((BLimb(a, i - 1) * k) \div LimbBase)]))

\* a * LimbBase^n
BShiftLimbs(a, n) ==
    Force(<<a, n>>, IF a = <<>> THEN <<>> ELSE [i \in 1..n |-> 0] \o a)

\* a[i] * b[k + 1 - i] + a[i + 1] * b[k - i] + ...
RECURSIVE BColumn(_, _, _, _)
BColumn(a, b, k, i) ==
    IF i > Len(a) THEN 0
    ELSE a[i] * BLimb(b, k + 1 - i) + BColumn(a, b, k, i + 1)

\* a * b, when the shorter factor has at most 7 limbs
BMul(a, b) ==
    Force(<<a, b>>,
      LET x   == IF Len(a) <= Len(b) THEN a ELSE b
          y   == IF Len(a) <= Len(b) THEN b ELSE a
          n   == Len(a) + Len(b)
          col == [k \in 1..n |-> BColumn(x, y, k, 1)]
          lo  == [k \in 1..(n + 2) |->
                    (BLimb(col, k) % LimbBase)
                      + (BLimb(col, k - 2) \div (LimbBase * LimbBase))]
          mid == [k \in 1..(n + 1) |-> (BLimb(col, k - 1) \div LimbBase) % LimbBase]
      IN  Force(col, BAdd(BCarry(lo), BNorm(mid))))

\* a * 2^n
BShl(a, n) ==
    Force(<<a, n>>,
      LET t == 2^(n % 14)
      IN  BShiftLimbs(
            BNorm([i \in 1..(Len(a) + 1) |->
                     ((BLimb(a, i) * t) % LimbBase) + ((BLimb(a, i - 1) * t) \div LimbBase)]),
            n \div 14))

BTimesSmall(p, k) == Force(p, BMulSmall(p, k))

\* 10^n
RECURSIVE BPow10(_)
BPow10(n) ==
    IF n = 0 THEN <<1>>
    ELSE IF n >= 4 THEN BTimesSmall(BPow10(n - 4), 10000)
    ELSE BTimesSmall(BPow10(n - 1), 10)

SmallBitLen(n) == IF n = 0 THEN 0 ELSE CHOOSE k \in 1..14 : 2^(k - 1) <= n /\ n < 2^k

BBitLen(a) ==
    Force(a, IF a = <<>> THEN 0 ELSE 14 * (Len(a) - 1) + SmallBitLen(a[Len(a)]))

BIsOdd(a) == a # <<>> /\ a[1] % 2 = 1

(***************************************************************************)
(* Long division a / d (d # 0), one limb of the quotient at a time.  With  *)
(* the leading limb of d at least LimbBase / 2, the estimate from the      *)
(* leading limbs is the quotient limb or up to 3 below it.                 *)
(***************************************************************************)
BDivTop(r, n) == IF Len(r) > n THEN r[n + 1] * LimbBase + r[n] ELSE r[n]

\* r1 = r - d * est is the remainder under the estimate est, and t what
\* the estimate falls short of the quotient limb
BDivFix(r1, d, est, t) ==
    Force(t, [q |-> est + t, r |-> BSub(r1, BMulSmall(d, t))])

BDivCorrect(r1, d, est) ==
    Force(r1, BDivFix(r1, d, est, Max({u \in 0..3 : BCmp(BMulSmall(d, u), r1) <= 0})))

BDivEstimate(r, d, est) == BDivCorrect(BSub(r, BMulSmall(d, est)), d, est)

BDivStep(r, d) ==
    Force(<<r, d>>,
      IF BCmp(r, d) < 0 THEN [q |-> 0, r |-> r]
      ELSE BDivEstimate(r, d, BDivTop(r, Len(d)) \div (d[Len(d)] + 1)))

BDivPrepend(hi, st) == Force(st, [q |-> <<st.q>> \o hi.q, r |-> st.r])

\* The limb a[i] brought down to the remainder of the limbs above it
BDivNext(a, d, i, hi) ==
    Force(hi, BDivPrepend(hi, BDivStep(BNorm(<<a[i]>> \o hi.r), d)))

\* Quotient and remainder of the number made of the limbs i.. of a; the
\* leading Len(d) - 1 limbs are below d and start the remainder.
RECURSIVE BDivFrom(_, _, _)
BDivFrom(a, d, i) ==
    IF i > Len(a) - Len(d) + 1
    THEN [q |-> <<>>, r |-> BNorm(SubSeq(a, i, Len(a)))]
    ELSE BDivNext(a, d, i, BDivFrom(a, d, i + 1))

BDivResult(qr, dd) == Force(qr, [q |-> BNorm(qr.q), r |-> qr.r, d |-> dd])

BDivScaled(aa, dd) == Force(<<aa, dd>>, BDivResult(BDivFrom(aa, dd, 1), dd))

BDivBy(a, d, s) == BDivScaled(BShl(a, s), BShl(d, s))

\* [q |-> a \div d, r |-> (a % d) * 2^s, d |-> d * 2^s], where the scaling
\* by 2^s brings the leading limb of d to at least LimbBase / 2.
BDivMod(a, d) == Force(<<a, d>>, BDivBy(a, d, 14 - SmallBitLen(d[Len(d)])))

(***************************************************************************)
(* binary64 values.  A finite value is (-1)^s * m * 2^e with m = 0 (and    *)
(* e = 0) or 2^52 <= m < 2^53; k tells finite values from infinities, NaN  *)
(* and from "err", an expression that does not compile (an identifier      *)
(* that is no macro, or a malformed expression).                           *)
(***************************************************************************)
Dbl(k, s, m, e) == [k |-> k, s |-> s, m |-> m, e |-> e]

FZero(s) == Dbl("fin", s, <<>>, 0)
FInf(s)  == Dbl("inf", s, <<>>, 0)
FNaN     == Dbl("nan", 0, <<>>, 0)
FErr     == Dbl("err", 0, <<>>, 0)

\* Largest exponent of the unit in the last place of a finite binary64.
MaxUlpExp == 1023 - 52

\* (-1)^s * q * 2^e for a quotient q that has been rounded to 53 bits
\* and has reached 2^53 if the rounding carried out of them
RoundPacked(s, e, q) ==
    Force(q,
      IF BBitLen(q) > 53
      THEN (IF e + 1 > MaxUlpExp THEN FInf(s) ELSE Dbl("fin", s, BShl(<<1>>, 52), e + 1))
      ELSE (IF e > MaxUlpExp THEN FInf(s) ELSE Dbl("fin", s, q, e)))

\* Round to nearest, ties to even: c compares twice the remainder with
\* the divisor.
RoundNearest(s, e, q, c) ==
    Force(c,
      RoundPacked(s, e, IF c > 0 \/ (c = 0 /\ BIsOdd(q)) THEN BAdd(q, <<1>>) ELSE q))

RoundQuotient(s, e, qr) ==
    Force(qr, RoundNearest(s, e, qr.q, BCmp(BShl(qr.r, 1), qr.d)))

\* N / D lies in (2^52, 2^54): halve it once more if it is at least 2^53
RoundHalved(s, e, N, D, big) ==
    Force(big,
      RoundQuotient(s, IF big THEN e + 1 ELSE e,
                    BDivMod(N, IF big THEN BShl(D, 1) ELSE D)))

RoundAligned(s, e, N, D) ==
    Force(<<N, D>>, RoundHalved(s, e, N, D, BCmp(N, BShl(D, 53)) >= 0))

\* num / den scaled by 2^-k, which brings the quotient into (2^52, 2^54)
RoundScaled(s, num, den, e, k) ==
    RoundAligned(s, e + k,
                 IF k < 0 THEN BShl(num, -k) ELSE num,
                 IF k > 0 THEN BShl(den, k) ELSE den)

\* (-1)^s * num / den * 2^e, correctly rounded (num, den # 0).
RoundRatio(s, num, den, e) ==
    Force(<<num, den, e>>,
      RoundScaled(s, num, den, e, BBitLen(num) - BBitLen(den) - 53))

Xor(s, t) == (s + t) % 2

\* x * y
FMul(x, y) ==
    Force(<<x, y>>,
    IF x.k = "err" \/ y.k = "err" THEN FErr
    ELSE IF x.k = "nan" \/ y.k = "nan" THEN FNaN
    ELSE IF x.k = "inf" \/ y.k = "inf"
         THEN IF (x.k = "fin" /\ x.m = <<>>) \/ (y.k = "fin" /\ y.m = <<>>)
              THEN FNaN ELSE FInf(Xor(x.s, y.s))
    ELSE IF x.m = <<>> \/ y.m = <<>> THEN FZero(Xor(x.s, y.s))
    ELSE RoundRatio(Xor(x.s, y.s), BMul(x.m, y.m), <<1>>, x.e + y.e))

\* x / y
FDiv(x, y) ==
    Force(<<x, y>>,
    IF x.k = "err" \/ y.k = "err" THEN FErr
    ELSE IF x.k = "nan" \/ y.k = "nan" THEN FNaN
    ELSE IF x.k = "inf" THEN IF y.k = "inf" THEN FNaN ELSE FInf(Xor(x.s, y.s))
    ELSE IF y.k = "inf" THEN FZero(Xor(x.s, y.s))
    ELSE IF y.m = <<>> THEN IF x.m = <<>> THEN FNaN ELSE FInf(Xor(x.s, y.s))
    ELSE IF x.m = <<>> THEN FZero(Xor(x.s, y.s))
    ELSE RoundRatio(Xor(x.s, y.s), x.m, y.m, x.e - y.e))

\* (-1)^s * m * 2^e, rounded
FSum(s, m, e) == IF m = <<>> THEN FZero(0) ELSE RoundRatio(s, m, <<1>>, e)

\* ((-1)^xs * a + (-1)^ys * b) * 2^e for a, b # 0, where c compares a with b
FAddCompared(xs, a, ys, b, e, c) ==
    FSum(IF xs = ys \/ c >= 0 THEN xs ELSE ys,
         IF xs = ys THEN BAdd(a, b) ELSE IF c >= 0 THEN BSub(a, b) ELSE BSub(b, a),
         e)

FAddAligned(xs, a, ys, b, e) ==
    Force(<<a, b>>, FAddCompared(xs, a, ys, b, e, BCmp(a, b)))

FAddAt(x, y, e) ==
    FAddAligned(x.s, BShl(x.m, x.e - e), y.s, BShl(y.m, y.e - e), e)

\* x + y
FAdd(x, y) ==
    Force(<<x, y>>,
    IF x.k = "err" \/ y.k = "err" THEN FErr
    ELSE IF x.k = "nan" \/ y.k = "nan" THEN FNaN
    ELSE IF x.k = "inf"
         THEN IF y.k = "inf" /\ y.s # x.s THEN FNaN ELSE x
    ELSE IF y.k = "inf" THEN y
    ELSE IF x.m = <<>> THEN (IF y.m = <<>> /\ x.s # y.s THEN FZero(0) ELSE y)
    ELSE IF y.m = <<>> THEN x
    \* an operand below a quarter of the other's unit in the last place
    \* leaves no trace in the rounded sum
    ELSE IF x.e - y.e > 56 THEN x
    ELSE IF y.e - x.e > 56 THEN y
    ELSE FAddAt(x, y, IF x.e < y.e THEN x.e ELSE y.e))

\* Tests on a value (NaN and err are no numbers).
FIsNum(x) == x.k \in {"fin", "inf"}
FPositive(x) == FIsNum(x) /\ x.s = 0 /\ ~(x.k = "fin" /\ x.m = <<>>)
FFinite(x) == x.k = "fin"

\* hi * k + d
DigitsAppend(hi, k, d) == Force(hi, BAdd(BMulSmall(hi, k), BNorm(<<d>>)))

\* The number spelled by the first n decimal digits of ds, four digits
\* at a time.
RECURSIVE Digits(_, _)
Digits(ds, n) ==
    IF n = 0 THEN <<>>
    ELSE IF n >= 4
    THEN DigitsAppend(Digits(ds, n - 4), 10000,
                      ds[n - 3] * 1000 + ds[n - 2] * 100 + ds[n - 1] * 10 + ds[n])
    ELSE DigitsAppend(Digits(ds, n - 1), 10, ds[n])

\* n * 10^e10, correctly rounded
ParseDigits(n, e10) ==
    Force(n,
      IF n = <<>> THEN FZero(0)
      ELSE RoundRatio(0, IF e10 >= 0 THEN BMul(n, BPow10(e10)) ELSE n,
                         IF e10 >= 0 THEN <<1>> ELSE BPow10(-e10), 0))

\* The value of a numeric literal as a double: the decimal number its
\* digits before the point ip, after the point fp and its exponent ex
\* spell, correctly rounded.  An integer literal meets only floating
\* operands in these expressions and is converted to double by the usual
\* arithmetic conversions.
ParseLiteral(ip, fp, ex) ==
    ParseDigits(Digits(ip \o fp, Len(ip) + Len(fp)), ex - Len(fp))

(***************************************************************************)
(* Tokens.  A number keeps the spelling of the literal (the digits before  *)
(* and after the point and the decimal exponent) and the value v the       *)
(* spelling converts to; fl tells a floating literal (267.5987E6) from an  *)
(* integer literal (2).                                                    *)
(***************************************************************************)
Tok(t, s, ip, fp, ex, fl, v) ==
    [t |-> t, s |-> s, ip |-> ip, fp |-> fp, ex |-> ex, fl |-> fl, v |-> v]

Num(ip, fp, ex) == Tok("num", "", ip, fp, ex, TRUE, ParseLiteral(ip, fp, ex))
IntLit(ip)      == Tok("num", "", ip, <<>>, 0, FALSE, ParseLiteral(ip, <<>>, 0))
Id(name)        == Tok("id", name, <<>>, <<>>, 0, FALSE, FErr)
Op(c)           == Tok("op", c, <<>>, <<>>, 0, FALSE, FErr)

\* The value of a parenthesised group that has been evaluated
Val(v)          == Tok("num", "", <<>>, <<>>, 0, TRUE, v)

\* The names the header defines, in the order of its four blocks.
Four == <<"GAMMA_H", "GAMMA_H_HZ", "GAMMA_H_SQ", "GAMMA_H_HZ_SQ">>

FourNames == {Four[i] : i \in 1..Len(Four)}

\* Every macro name of the translation unit: the four, M_PI (which the
\* header uses and does not define) and one name the header never mentions.
Names == FourNames \cup {"M_PI", "OTHER"}

\* The replacement lists of the header's four #define lines.
\* The literal with two digits transposed: 267.5978E6
GAMMA_H_Transposed == <<Num(<<2, 6, 7>>, <<5, 9, 7, 8>>, 6)>>

GAMMA_H == <<Num(<<2, 6, 7>>, <<5, 9, 8, 7>>, 6)>>

\* The divisor read from a macro of the consumer's: (GAMMA_H / (2 * OTHER))
GAMMA_H_HZ_Other ==
    <<Op("("), Id("GAMMA_H"), Op("/"),
      Op("("), IntLit(<<2>>), Op("*"), Id("OTHER"), Op(")"), Op(")")>>

\* The division by pi in place of 2 pi: (GAMMA_H / M_PI)
GAMMA_H_HZ_NoTwo == <<Op("("), Id("GAMMA_H"), Op("/"), Id("M_PI"), Op(")")>>

\* The divisor without its parentheses: GAMMA_H / 2 * M_PI
GAMMA_H_HZ_NoParens ==
    <<Op("("), Id("GAMMA_H"), Op("/"), IntLit(<<2>>), Op("*"), Id("M_PI"), Op(")")>>

GAMMA_H_HZ ==
    <<Op("("), Id("GAMMA_H"), Op("/"),
      Op("("), IntLit(<<2>>), Op("*"), Id("M_PI"), Op(")"), Op(")")>>

\* The square written out as a number: 71609064241690000.0
GAMMA_H_SQ_Literal ==
    <<Num(<<7, 1, 6, 0, 9, 0, 6, 4, 2, 4, 1, 6, 9, 0, 0, 0, 0>>, <<0>>, 0)>>

\* A square that multiplies by the wrong base: GAMMA_H * GAMMA_H_HZ
GAMMA_H_SQ_WrongBase ==
    <<Op("("), Id("GAMMA_H"), Op("*"), Id("GAMMA_H_HZ"), Op(")")>>

GAMMA_H_SQ == <<Op("("), Id("GAMMA_H"), Op("*"), Id("GAMMA_H"), Op(")")>>

\* The base misspelt: (GAMMA_HZ * GAMMA_HZ)
GAMMA_H_HZ_SQ_Misspelt ==
    <<Op("("), Id("GAMMA_HZ"), Op("*"), Id("GAMMA_HZ"), Op(")")>>

\* A square that multiplies by the wrong base: (GAMMA_H_HZ * GAMMA_H)
GAMMA_H_HZ_SQ_WrongBase ==
    <<Op("("), Id("GAMMA_H_HZ"), Op("*"), Id("GAMMA_H"), Op(")")>>

GAMMA_H_HZ_SQ == <<Op("("), Id("GAMMA_H_HZ"), Op("*"), Id("GAMMA_H_HZ"), Op(")")>>

\* The replacement list the header gives each of its macros.
HeaderBody(name) ==
    CASE name = "GAMMA_H" -> GAMMA_H
      [] name = "GAMMA_H_HZ" -> GAMMA_H_HZ
      [] name = "GAMMA_H_SQ" -> GAMMA_H_SQ
      [] name = "GAMMA_H_HZ_SQ" -> GAMMA_H_HZ_SQ

\* M_PI as the math library spells it: 3.14159265358979323846
MathLibPi ==
    <<Num(<<3>>, <<1, 4, 1, 5, 9, 2, 6, 5, 3, 5, 8, 9, 7, 9, 3, 2, 3, 8, 4, 6>>, 0)>>

(***************************************************************************)
(* The macro table: for each name, whether it is defined and its           *)
(* replacement list.                                                       *)
(***************************************************************************)
Undefined == [def |-> FALSE, body |-> <<>>]
Defined(body) == [def |-> TRUE, body |-> body]

\* #define name body.  redef collects the names whose #define was reached
\* while the name was already defined.
Define(pp, name, body) ==
    [tab   |-> [pp.tab EXCEPT ![name] = Defined(body)],
     redef |-> IF pp.tab[name].def THEN pp.redef \cup {name} ELSE pp.redef]

\* An overwrite policy in place of define-if-absent: the #define without
\* its #ifndef.
DefineAlways(pp, name) == Define(pp, name, HeaderBody(name))

\* #ifndef name ... #endif around the #define of the header's body
IfNotDefined(pp, name) ==
    IF ~pp.tab[name].def THEN Define(pp, name, HeaderBody(name)) ELSE pp

\* The whole header: its four guarded blocks in order.
RECURSIVE IncludeFrom(_, _)
IncludeFrom(pp, i) ==
    IF i > Len(Four) THEN pp ELSE IncludeFrom(IfNotDefined(pp, Four[i]), i + 1)

IncludeHeader(tab) == IncludeFrom([tab |-> tab, redef |-> {}], 1)

(***************************************************************************)
(* Use of a macro in an expression.  Expansion replaces a defined name by  *)
(* its replacement list and rescans it; a name is not replaced again       *)
(* inside its own expansion.                                               *)
(***************************************************************************)
RECURSIVE Expand(_, _, _)
Expand(tab, toks, hide) ==
    IF toks = <<>> THEN <<>>
    ELSE LET h == Head(toks)
         IN  (IF h.t = "id" /\ h.s \in Names /\ h.s \notin hide /\ tab[h.s].def
              THEN Expand(tab, tab[h.s].body, hide \cup {h.s})
              ELSE <<h>>)
             \o Expand(tab, Tail(toks), hide)

\* Constant expressions: expr = term {+ term}, term = factor {(*|/) factor},
\* factor = literal | ( expr ).  A parenthesised group is evaluated before
\* the expression around it, innermost groups first; an identifier left
\* over by expansion is an undeclared name, which does not compile.
IsOp(toks, i, c) == i <= Len(toks) /\ toks[i].t = "op" /\ toks[i].s = c

IsParen(toks, i) == IsOp(toks, i, "(") \/ IsOp(toks, i, ")")

RECURSIVE ParseExprRest(_, _, _)
RECURSIVE ParseTermRest(_, _, _)

\* A value and the position after it
ParseFactor(toks, i) ==
    IF i <= Len(toks) /\ toks[i].t = "num" THEN [v |-> toks[i].v, i |-> i + 1]
    ELSE [v |-> FErr, i |-> Len(toks) + 2]

\* acc c f, for the operator c and the factor f after it, and what follows
ParseTermStep(toks, acc, c, f) ==
    ParseTermRest(toks, IF c = "*" THEN FMul(acc, f.v) ELSE FDiv(acc, f.v), f.i)

ParseTermRest(toks, acc, i) ==
    Force(<<acc, i>>,
      IF IsOp(toks, i, "*") THEN ParseTermStep(toks, acc, "*", ParseFactor(toks, i + 1))
      ELSE IF IsOp(toks, i, "/") THEN ParseTermStep(toks, acc, "/", ParseFactor(toks, i + 1))
      ELSE [v |-> acc, i |-> i])

ParseTermFrom(toks, f) == ParseTermRest(toks, f.v, f.i)

ParseTerm(toks, i) == ParseTermFrom(toks, ParseFactor(toks, i))

\* acc + t, for the term t after the +, and what follows
ParseExprStep(toks, acc, t) == ParseExprRest(toks, FAdd(acc, t.v), t.i)

ParseExprRest(toks, acc, i) ==
    Force(<<acc, i>>,
      IF IsOp(toks, i, "+") THEN ParseExprStep(toks, acc, ParseTerm(toks, i + 1))
      ELSE [v |-> acc, i |-> i])

\* An expression must take up all the tokens
ParseExprEnd(toks, e) == IF e.i = Len(toks) + 1 THEN e.v ELSE FErr

ParseExprFrom(toks, t) == ParseExprEnd(toks, ParseExprRest(toks, t.v, t.i))

\* The value of an expression without parentheses
ParseExpr(toks) == ParseExprFrom(toks, ParseTerm(toks, 1))

\* The positions of the ( whose group holds no further parenthesis, and
\* the position of the ) that closes such a group.
Innermost(toks) ==
    {i \in 1..Len(toks) :
        /\ IsOp(toks, i, "(")
        /\ \E j \in (i + 1)..Len(toks) :
              /\ IsOp(toks, j, ")")
              /\ \A k \in (i + 1)..(j - 1) : ~IsParen(toks, k)}

Close(toks, i) ==
    CHOOSE j \in (i + 1)..Len(toks) :
        IsOp(toks, j, ")") /\ \A k \in (i + 1)..(j - 1) : ~IsParen(toks, k)

\* For each position, the token that stands there once the innermost groups
\* (opened at opens) are evaluated, and whether a token stands there at all
GroupMarks(toks, opens) ==
    [k \in 1..Len(toks) |->
        IF k \in opens
        THEN [keep |-> TRUE,
              tok  |-> Val(ParseExpr(SubSeq(toks, k + 1, Close(toks, k) - 1)))]
        ELSE [keep |-> \A i \in opens : k < i \/ k > Close(toks, i),
              tok  |-> toks[k]]]

KeptToks(kept) == [k \in 1..Len(kept) |-> kept[k].tok] \o <<>>

\* Every innermost group replaced by its value
ReduceGroups(toks) ==
    KeptToks(SelectSeq(GroupMarks(toks, Innermost(toks)), LAMBDA m : m.keep))

RECURSIVE Reduce(_)
ReduceNext(inner) == Force(inner, Reduce(inner))

Reduce(toks) ==
    IF \A k \in 1..Len(toks) : ~IsParen(toks, k) THEN ParseExpr(toks)
    ELSE IF Innermost(toks) = {} THEN FErr
    ELSE ReduceNext(ReduceGroups(toks))

Evaluate(toks) == Reduce(toks)

ResolveTokens(toks) == Force(toks, Evaluate(toks))

\* What the name evaluates to where it is used, under the table in force.
Resolve(tab, name) == ResolveTokens(Expand(tab, <<Id(name)>>, {}))

\* What a use of each of the four names evaluates to under the table
Uses(tab) == [n \in FourNames |-> Resolve(tab, n)]

(***************************************************************************)
(* The translation unit: the consumer's own directives and inclusions of   *)
(* the header, in any order.                                               *)
(***************************************************************************)
\* Consumer directives (#define, #undef) in one translation unit.
MaxDirectives == 2
\* Inclusions of the header in one translation unit.
MaxIncludes == 2

\* Replacement lists a consumer gives a name: 2.0, 0.0 and the
\* unparenthesised 1.0 + 1.0
ConsumerBodies ==
    { <<Num(<<2>>, <<0>>, 0)>>,
      <<Num(<<0>>, <<0>>, 0)>>,
      <<Num(<<1>>, <<0>>, 0), Op("+"), Num(<<1>>, <<0>>, 0)>> }

\* The name the header never mentions gets one replacement list.
BodiesFor(n) == IF n = "OTHER" THEN {<<Num(<<2>>, <<0>>, 0)>>} ELSE ConsumerBodies

VARIABLES
    table,        \* the macro table in force
    value,        \* what a use of each of the four names evaluates to here
    redefined,    \* names whose #define in the header was reached while defined
    run,          \* how many inclusions in a row were just made
    touched,      \* a consumer directive after the first inclusion named one
                  \* of the four names or M_PI
    nDirectives,  \* consumer directives so far
    nIncludes     \* inclusions so far

vars == <<table, value, redefined, run, touched, nDirectives, nIncludes>>

NoMacros == [n \in Names |-> Undefined]

\* Before the first directive only the math library's M_PI is defined.
Init ==
    /\ table = [NoMacros EXCEPT !["M_PI"] = Defined(MathLibPi)]
    /\ value = Uses(table)
    /\ redefined = {}
    /\ run = 0
    /\ touched = FALSE
    /\ nDirectives = 0
    /\ nIncludes = 0

\* #include "MRIConstants.h"
Include ==
    /\ nIncludes < MaxIncludes
    /\ LET pp == IncludeHeader(table)
       IN  /\ table' = pp.tab
           /\ redefined' = redefined \cup pp.redef
    /\ value' = Uses(table')
    /\ run' = run + 1
    /\ nIncludes' = nIncludes + 1
    /\ UNCHANGED <<touched, nDirectives>>

Relevant(n) == n \in FourNames \cup {"M_PI"}

\* The consumer's #define n b.  A well-formed translation unit defines a
\* name only while it is undefined.
ConsumerDefine(n, b) ==
    /\ nDirectives < MaxDirectives
    /\ ~table[n].def
    /\ table' = Define([tab |-> table, redef |-> {}], n, b).tab
    /\ value' = Uses(table')
    /\ run' = 0
    /\ touched' = (touched \/ (nIncludes > 0 /\ Relevant(n)))
    /\ nDirectives' = nDirectives + 1
    /\ UNCHANGED <<redefined, nIncludes>>

\* The consumer's #undef n (without effect on a name that is not defined).
ConsumerUndef(n) ==
    /\ nDirectives < MaxDirectives
    /\ table[n].def
    /\ table' = [table EXCEPT ![n] = Undefined]
    /\ value' = Uses(table')
    /\ run' = 0
    /\ touched' = (touched \/ (nIncludes > 0 /\ Relevant(n)))
    /\ nDirectives' = nDirectives + 1
    /\ UNCHANGED <<redefined, nIncludes>>

Next ==
    \/ Include
    \/ \E n \in Names : \E b \in BodiesFor(n) : ConsumerDefine(n, b)
    \/ \E n \in Names : ConsumerUndef(n)

Spec == Init /\ [][Next]_vars

(***************************************************************************)
(* Properties.                                                             *)
(***************************************************************************)
\* The header has been included and every directive of the consumer on
\* the four names or M_PI came before the first inclusion.
Included == nIncludes >= 1 /\ ~touched

\* The step is an inclusion of the header.
IncludeStep == nIncludes' = nIncludes + 1

\* The definition in force of the name is the header's own.
HeaderDefined(n) == table[n] = Defined(HeaderBody(n))

\* The consumer defined the name as 2.0
Two == <<Num(<<2>>, <<0>>, 0)>>
ConsumerTwo(n) == table[n] = Defined(Two)

\* C1: an inclusion leaves every name that is defined before it with the
\* definition it had, gives each of the four names that was undefined the
\* header's definition, and changes or adds no other name.
C1_FirstDefinitionWins ==
    [][IncludeStep =>
         \A n \in Names :
            /\ table[n].def => table'[n] = table[n]
            /\ n \notin FourNames => table'[n] = table[n]
            /\ (n \in FourNames /\ ~table[n].def) =>
                   table'[n] = Defined(HeaderBody(n))]_vars

\* The header was just included where the consumer had defined GAMMA_H and
\* not GAMMA_H_SQ, and M_PI was undefined.
C1_Witness ==
    /\ run = 1
    /\ ConsumerTwo("GAMMA_H")
    /\ HeaderDefined("GAMMA_H_SQ")
    /\ ~table["M_PI"].def

\* C2: an inclusion that follows an inclusion changes neither the macro
\* table nor the value of any of the four constants, and no #define of the
\* header is ever reached for a name that is defined.
C2_IdempotentInclusion ==
    [][(IncludeStep /\ run >= 1) =>
         (table' = table /\ value' = value /\ redefined' = {})]_vars

\* The header was included twice in a row where the consumer had defined
\* one of the four names.
C2_Witness ==
    /\ run = 2
    /\ ConsumerTwo("GAMMA_H_HZ")
    /\ HeaderDefined("GAMMA_H_HZ_SQ")

\* A replacement list that is a primary expression: one literal, or one
\* parenthesised group.
ParenDepth(body, k) ==
    Cardinality({i \in 1..k : IsOp(body, i, "(")})
      - Cardinality({i \in 1..k : IsOp(body, i, ")")})

Primary(body) ==
    \/ Len(body) = 1 /\ body[1].t = "num"
    \/ /\ Len(body) >= 2
       /\ \A k \in 1..(Len(body) - 1) : ParenDepth(body, k) > 0
       /\ ParenDepth(body, Len(body)) = 0

PrimaryDef(n) == table[n].def /\ Primary(table[n].body)

\* M_PI is the math library's.
LibPi == table["M_PI"] = Defined(MathLibPi)

\* 2 * pi in double arithmetic, pi being the math library's M_PI
TwoPi == FMul(IntLit(<<2>>).v, MathLibPi[1].v)

Sq(x) == FMul(x, x)

\* C3 as the spec states it: after inclusion, whatever the consumer
\* defined, GAMMA_H_SQ is the square of GAMMA_H and GAMMA_H_HZ_SQ the
\* square of GAMMA_H_HZ.
C3_SquaresAlways ==
    Included =>
       /\ value["GAMMA_H_SQ"] = Sq(value["GAMMA_H"])
       /\ value["GAMMA_H_HZ_SQ"] = Sq(value["GAMMA_H_HZ"])

\* C3, amended: after inclusion, a square whose definition in force is the
\* header's is the square (in double arithmetic) of its base whenever the
\* base's replacement list is a primary expression.
C3_SquaresOfPrimaryBase ==
    nIncludes >= 1 =>
       /\ (HeaderDefined("GAMMA_H_SQ") /\ PrimaryDef("GAMMA_H")) =>
             value["GAMMA_H_SQ"] = Sq(value["GAMMA_H"])
       /\ (HeaderDefined("GAMMA_H_HZ_SQ") /\ PrimaryDef("GAMMA_H_HZ")) =>
             value["GAMMA_H_HZ_SQ"] = Sq(value["GAMMA_H_HZ"])

\* The header's squares are in force over a base the consumer defined
\* as 2.0 and over the header's own GAMMA_H_HZ, and they have values.
C3_Witness ==
    /\ nIncludes >= 1
    /\ ConsumerTwo("GAMMA_H")
    /\ HeaderDefined("GAMMA_H_SQ") /\ HeaderDefined("GAMMA_H_HZ_SQ")
    /\ HeaderDefined("GAMMA_H_HZ")
    /\ FFinite(value["GAMMA_H_SQ"]) /\ FPositive(value["GAMMA_H_HZ_SQ"])

\* C4 as the spec states it: after inclusion, whatever the consumer
\* defined, GAMMA_H_HZ is GAMMA_H / (2 pi) and GAMMA_H_HZ_SQ its square.
C4_DerivedAlways ==
    Included =>
       /\ value["GAMMA_H_HZ"] = FDiv(value["GAMMA_H"], TwoPi)
       /\ value["GAMMA_H_HZ_SQ"] = Sq(FDiv(value["GAMMA_H"], TwoPi))

\* C4, amended: after inclusion, where M_PI is the math library's and the
\* replacement list of GAMMA_H is a primary expression, a GAMMA_H_HZ that
\* is the header's is GAMMA_H / (2 pi), and a GAMMA_H_HZ_SQ that is the
\* header's over it is the square of that.
C4_DerivedWhenHeaderDefined ==
    (nIncludes >= 1 /\ LibPi /\ PrimaryDef("GAMMA_H") /\ HeaderDefined("GAMMA_H_HZ")) =>
       /\ value["GAMMA_H_HZ"] = FDiv(value["GAMMA_H"], TwoPi)
       /\ HeaderDefined("GAMMA_H_HZ_SQ") =>
             value["GAMMA_H_HZ_SQ"] = Sq(FDiv(value["GAMMA_H"], TwoPi))

\* The header's GAMMA_H_HZ and GAMMA_H_HZ_SQ are in force over the
\* library's M_PI and a GAMMA_H the consumer defined as 2.0
C4_Witness ==
    /\ nIncludes >= 1 /\ LibPi
    /\ ConsumerTwo("GAMMA_H")
    /\ HeaderDefined("GAMMA_H_HZ") /\ HeaderDefined("GAMMA_H_HZ_SQ")
    /\ FPositive(value["GAMMA_H_HZ"]) /\ FFinite(value["GAMMA_H_HZ"])

\* The whole number the decimal digits ds spell
Whole(ds) == Digits(ds, Len(ds))

BAbsDiff(a, b) == IF BCmp(a, b) >= 0 THEN BSub(a, b) ELSE BSub(b, a)

\* x is the whole number n
IsWhole(x, n) ==
    /\ x.k = "fin" /\ x.s = 0
    /\ IF x.e >= 0 THEN BShl(x.m, x.e) = n ELSE x.m = BShl(n, -x.e)

\* |x - n| <= n / 10^12 for a whole number n
WithinRelative(x, n) ==
    /\ x.k = "fin" /\ x.s = 0
    /\ LET a == IF x.e >= 0 THEN BShl(x.m, x.e) ELSE x.m
           b == IF x.e >= 0 THEN n ELSE BShl(n, -x.e)
       IN  BCmp(BMul(BAbsDiff(a, b), BPow10(12)), b) <= 0

\* x rounded to two decimal places is c hundredths: |100 x - c| <= 1/2
RoundsToHundredths(x, c) ==
    /\ x.k = "fin" /\ x.s = 0
    /\ LET a == IF x.e >= 0 THEN BShl(BMulSmall(x.m, 200), x.e) ELSE BMulSmall(x.m, 200)
           b == IF x.e >= 0 THEN BMulSmall(c, 2) ELSE BShl(c, 1 - x.e)
           h == IF x.e >= 0 THEN <<1>> ELSE BShl(<<1>>, -x.e)
       IN  BCmp(BAbsDiff(a, b), h) <= 0

\* The header's own GAMMA_H, that is 267598700.0, is in force.
DefaultGammaH ==
    /\ nIncludes >= 1 /\ HeaderDefined("GAMMA_H")
    /\ IsWhole(value["GAMMA_H"], Whole(<<2, 6, 7, 5, 9, 8, 7, 0, 0>>))

\* C5 as the spec states it: with the default GAMMA_H, GAMMA_H_SQ is
\* 71628279419690000.0 to within a relative error of 1e-12.
C5_SquareAsStated ==
    (DefaultGammaH /\ HeaderDefined("GAMMA_H_SQ")) =>
       WithinRelative(value["GAMMA_H_SQ"],
                      Whole(<<7, 1, 6, 2, 8, 2, 7, 9, 4, 1, 9, 6, 9, 0, 0, 0, 0>>))

\* C5, amended: with the default GAMMA_H = 267598700.0, the header's
\* GAMMA_H_SQ is 71609064241690000.0, which is 267598700 * 267598700
\* exactly.
C5_SquareOfDefault ==
    (nIncludes >= 1 /\ HeaderDefined("GAMMA_H") /\ HeaderDefined("GAMMA_H_SQ")) =>
       /\ IsWhole(value["GAMMA_H"], Whole(<<2, 6, 7, 5, 9, 8, 7, 0, 0>>))
       /\ IsWhole(value["GAMMA_H_SQ"],
                  Whole(<<7, 1, 6, 0, 9, 0, 6, 4, 2, 4, 1, 6, 9, 0, 0, 0, 0>>))
       /\ BMul(Whole(<<2, 6, 7, 5, 9, 8, 7, 0, 0>>), Whole(<<2, 6, 7, 5, 9, 8, 7, 0, 0>>))
             = Whole(<<7, 1, 6, 0, 9, 0, 6, 4, 2, 4, 1, 6, 9, 0, 0, 0, 0>>)

\* The header's GAMMA_H and GAMMA_H_SQ are in force and GAMMA_H_SQ has a
\* finite value.
C5_Witness ==
    /\ DefaultGammaH /\ HeaderDefined("GAMMA_H_SQ")
    /\ FFinite(value["GAMMA_H_SQ"]) /\ FPositive(value["GAMMA_H_SQ"])

\* C6 as the spec states it: with the default GAMMA_H, GAMMA_H_HZ rounded
\* to two decimal places is 42,577,478.92
C6_HzAsStated ==
    (DefaultGammaH /\ LibPi /\ HeaderDefined("GAMMA_H_HZ")) =>
       RoundsToHundredths(value["GAMMA_H_HZ"], Whole(<<4, 2, 5, 7, 7, 4, 7, 8, 9, 2>>))

\* C6, amended: with the default GAMMA_H and the math library's M_PI, the
\* header's GAMMA_H_HZ rounded to two decimal places is 42,589,655.87
C6_HzOfDefault ==
    (nIncludes >= 1 /\ HeaderDefined("GAMMA_H") /\ LibPi /\ HeaderDefined("GAMMA_H_HZ")) =>
       RoundsToHundredths(value["GAMMA_H_HZ"], Whole(<<4, 2, 5, 8, 9, 6, 5, 5, 8, 7>>))

\* The header's GAMMA_H and GAMMA_H_HZ are in force over the library's
\* M_PI and GAMMA_H_HZ has a finite value.
C6_Witness ==
    /\ DefaultGammaH /\ LibPi /\ HeaderDefined("GAMMA_H_HZ")
    /\ FFinite(value["GAMMA_H_HZ"]) /\ FPositive(value["GAMMA_H_HZ"])

\* The names whose definitions decide what the name evaluates to when its
\* definition is the header's.
Needs(n) ==
    CASE n = "GAMMA_H" -> {"GAMMA_H"}
      [] n = "GAMMA_H_SQ" -> {"GAMMA_H", "GAMMA_H_SQ"}
      [] n = "GAMMA_H_HZ" -> {"GAMMA_H", "GAMMA_H_HZ", "M_PI"}
      [] n = "GAMMA_H_HZ_SQ" -> {"GAMMA_H", "GAMMA_H_HZ", "GAMMA_H_HZ_SQ", "M_PI"}

\* The name and the names it refers to have the header's definitions, and
\* M_PI, where it is referred to, the math library's.
OwnDefinitions(n) ==
    \A d \in Needs(n) : IF d = "M_PI" THEN LibPi ELSE HeaderDefined(d)

\* C7 as the spec states it: after inclusion, in every including context,
\* each of the four names resolves to a strictly positive finite value.
C7_PositiveFiniteAlways ==
    Included =>
       \A n \in FourNames : FPositive(value[n]) /\ FFinite(value[n])

\* C7, amended: after inclusion, each of the four names whose definition
\* and the definitions it refers to are the header's own, with M_PI the
\* math library's, resolves to a strictly positive finite value.
C7_PositiveFiniteOwn ==
    nIncludes >= 1 =>
       \A n \in FourNames :
          OwnDefinitions(n) => FPositive(value[n]) /\ FFinite(value[n])

\* All four names have the header's definitions over the library's M_PI,
\* and the last of them has a value.
C7_Witness ==
    /\ nIncludes >= 1
    /\ \A n \in FourNames : OwnDefinitions(n)
    /\ FIsNum(value["GAMMA_H_HZ_SQ"])

\* The four values in a context that defines none of the four names and
\* takes M_PI from the math library: 267598700, 5716286847168589 * 2^-27
\* (42589655.8699...), 71609064241690000 and 7255515148488236 * 2^-2
\* (1813878787122059)
DefaultValue(n) ==
    CASE n = "GAMMA_H" ->
           Dbl("fin", 0, Whole(<<8, 9, 7, 9, 1, 2, 2, 3, 8, 2, 4, 3, 8, 4, 0, 0>>), -25)
      [] n = "GAMMA_H_HZ" ->
           Dbl("fin", 0, Whole(<<5, 7, 1, 6, 2, 8, 6, 8, 4, 7, 1, 6, 8, 5, 8, 9>>), -27)
      [] n = "GAMMA_H_SQ" ->
           Dbl("fin", 0, Whole(<<8, 9, 5, 1, 1, 3, 3, 0, 3, 0, 2, 1, 1, 2, 5, 0>>), 3)
      [] n = "GAMMA_H_HZ_SQ" ->
           Dbl("fin", 0, Whole(<<7, 2, 5, 5, 5, 1, 5, 1, 4, 8, 4, 8, 8, 2, 3, 6>>), -2)

\* C8 as the spec states it: after inclusion the four values are the same
\* in any two including contexts, whatever M_PI and the consumer's
\* definitions of the four names are; so in each they are the values of the
\* context that defines nothing.
C8_SameEverywhere ==
    Included => \A n \in FourNames : value[n] = DefaultValue(n)

\* C8, amended: after inclusion the four values are the same in any two
\* including contexts in which all four definitions are the header's and
\* M_PI is the math library's.
C8_SameWhereOwn ==
    (nIncludes >= 1 /\ \A n \in FourNames : OwnDefinitions(n)) =>
       \A n \in FourNames : value[n] = DefaultValue(n)

\* A context with the header's four definitions and the library's M_PI in
\* which the consumer made definitions of its own before the inclusion.
C8_Witness ==
    /\ nIncludes >= 1 /\ nDirectives >= 1 /\ ~touched
    /\ table["OTHER"].def
    /\ \A n \in FourNames : OwnDefinitions(n)
    /\ \A n \in FourNames : FIsNum(value[n])

\* C9 as the spec states it: once the header has been included, no later
\* step (an inclusion, a #define or an #undef of any name) changes the
\* value of any of the four constants.
C9_NeverChanges ==
    [][nIncludes >= 1 => value' = value]_vars

\* C9, amended: once the header has been included, the four constants keep
\* their values over further inclusions and over consumer directives on
\* other names, up to the first #define or #undef of one of the four names
\* or of M_PI.
C9_KeptUntilTouched ==
    [][(nIncludes >= 1 /\ ~touched') => value' = value]_vars

\* After an inclusion the consumer made a directive on another name, and
\* none on the four names or M_PI.
C9_Witness ==
    /\ nIncludes >= 1 /\ run = 0 /\ ~touched
    /\ \A n \in FourNames : table[n].def /\ FIsNum(value[n])

\* The consumer defined the name as a single numeric literal.
LiteralDef(n) ==
    /\ table[n].def /\ ~HeaderDefined(n)
    /\ Len(table[n].body) = 1 /\ table[n].body[1].t = "num"

LiteralValue(n) == table[n].body[1].v

\* The other three of the four names have the header's definitions.
OthersFromHeader(n) == \A d \in FourNames \ {n} : HeaderDefined(d)

\* C10 as stated: after inclusion, with GAMMA_H a literal v of the
\* consumer's and the other three the header's, GAMMA_H_SQ is v * v,
\* GAMMA_H_HZ is v / (2 pi) and GAMMA_H_HZ_SQ is (v / (2 pi))^2; with only
\* GAMMA_H_HZ a literal w, GAMMA_H_HZ_SQ is w * w and GAMMA_H and
\* GAMMA_H_SQ are the defaults.
C10_FollowsOverride ==
    Included =>
       /\ (LiteralDef("GAMMA_H") /\ OthersFromHeader("GAMMA_H")) =>
             LET v == LiteralValue("GAMMA_H")
             IN  /\ value["GAMMA_H_SQ"] = Sq(v)
                 /\ value["GAMMA_H_HZ"] = FDiv(v, TwoPi)
                 /\ value["GAMMA_H_HZ_SQ"] = Sq(FDiv(v, TwoPi))
       /\ (LiteralDef("GAMMA_H_HZ") /\ OthersFromHeader("GAMMA_H_HZ")) =>
             LET w == LiteralValue("GAMMA_H_HZ")
             IN  /\ value["GAMMA_H_HZ_SQ"] = Sq(w)
                 /\ value["GAMMA_H"] = DefaultValue("GAMMA_H")
                 /\ value["GAMMA_H_SQ"] = DefaultValue("GAMMA_H_SQ")

\* C10, amended: the same, with GAMMA_H_HZ = v / (2 pi) and
\* GAMMA_H_HZ_SQ = (v / (2 pi))^2 where M_PI is the math library's.
C10_FollowsOverrideLibPi ==
    nIncludes >= 1 =>
       /\ (LiteralDef("GAMMA_H") /\ OthersFromHeader("GAMMA_H")) =>
             LET v == LiteralValue("GAMMA_H")
             IN  /\ value["GAMMA_H_SQ"] = Sq(v)
                 /\ LibPi => /\ value["GAMMA_H_HZ"] = FDiv(v, TwoPi)
                             /\ value["GAMMA_H_HZ_SQ"] = Sq(FDiv(v, TwoPi))
       /\ (LiteralDef("GAMMA_H_HZ") /\ OthersFromHeader("GAMMA_H_HZ")) =>
             LET w == LiteralValue("GAMMA_H_HZ")
             IN  /\ value["GAMMA_H_HZ_SQ"] = Sq(w)
                 /\ value["GAMMA_H"] = DefaultValue("GAMMA_H")
                 /\ value["GAMMA_H_SQ"] = DefaultValue("GAMMA_H_SQ")

\* The consumer defined GAMMA_H as 2.0 and the header the other three, over
\* the library's M_PI.
C10_Witness ==
    /\ nIncludes >= 1 /\ LibPi
    /\ ConsumerTwo("GAMMA_H") /\ OthersFromHeader("GAMMA_H")
    /\ value["GAMMA_H_SQ"] = Sq(LiteralValue("GAMMA_H"))
    /\ FFinite(value["GAMMA_H_HZ_SQ"])

====
